---- MODULE Spec2Model ----
(***************************************************************************)
(* A model of ruba's columnar string encodings (columns/strings.rs) and of *)
(* its query plan compiler, lowering and staged executor                   *)
(* (engine/query_plan.rs).                                                 *)
(*                                                                         *)
(* The module holds one specification per component:                       *)
(*   SpecPacker       StringPacker::from_strings and its iterator          *)
(*   SpecDict         DictEncodedStrings::from_strings and its iterator    *)
(*   SpecCompile      QueryPlan::create_query_plan                         *)
(*   SpecGroupingKey  QueryPlan::compile_grouping_key and the evaluation   *)
(*                    of the plans it returns                              *)
(*   SpecExecutor     QueryExecutor: building, lowering and run            *)
(* Every specification constrains only its own variables; the variables of *)
(* the other components keep their idle value.                             *)
(***************************************************************************)
EXTENDS Integers, Sequences, FiniteSets, TLC

VARIABLES
    sp,      \* StringPacker, its input and one open StringPackerIterator
    de,      \* DictEncodedStrings, its input and one open iterator
    cq,      \* one call of create_query_plan: the expression and its result
    gk,      \* one call of compile_grouping_key, and rows evaluated with it
    ex,      \* QueryExecutor: stages and count
    rn       \* QueryExecutor::run: position, scratchpad, operators executed

vars == <<sp, de, cq, gk, ex, rn>>

(***************************************************************************)
(* Generic helpers.                                                        *)
(***************************************************************************)
Range(s) == {s[i] : i \in 1..Len(s)}

SeqsUpTo(S, n) == UNION {[1..k -> S] : k \in 0..n}

\* Option<T>: None is the empty sequence, Some(v) the one-element sequence.
None == <<>>
Some(v) == <<v>>
IsSome(o) == Len(o) = 1
Unwrap(o) == o[1]
Options(S) == {None} \cup {Some(v) : v \in S}

Idle == [pc |-> "idle"]

(***************************************************************************)
(* columns/strings.rs: StringPacker.                                       *)
(* A string is the sequence of its bytes.                                  *)
(***************************************************************************)
\* Longest string and longest input sequence that are enumerated.
MaxStrLen == 2
MaxStrings == 2

\* The byte values strings are drawn from: the terminator 0 and two others.
ByteVals == {0, 1, 2}

PackerStrings == SeqsUpTo(ByteVals, MaxStrLen)

PackerInputs == SeqsUpTo(Options(PackerStrings), MaxStrings)

\* StringPacker::new
PackerNew == [data |-> <<>>]

\* Mutation of push: the terminating zero byte is left out.
PushNoTerminator(packer, string) == [data |-> packer.data \o string]

\* StringPacker::push: the bytes of the string, then one zero byte.
Push(packer, string) == [data |-> packer.data \o string \o <<0>>]

RECURSIVE PushAll(_, _, _)
PushAll(packer, strings, i) ==
    IF i > Len(strings)
    THEN packer
    ELSE PushAll(Push(packer, IF IsSome(strings[i]) THEN Unwrap(strings[i]) ELSE <<>>),
                 strings, i + 1)

\* StringPacker::from_strings: push every string, a None as "".
\* shrink_to_fit changes the capacity only.
PackerFromStrings(strings) == PushAll(PackerNew, strings, 1)

\* The scan of StringPackerIterator::next: the first index >= index (0-based)
\* that holds a zero byte; Len(data) when the scan leaves the vector (the
\* indexing data[index] then panics).
RECURSIVE ScanZero(_, _)
ScanZero(data, index) ==
    IF index >= Len(data) THEN Len(data)
    ELSE IF data[index + 1] = 0 THEN index
    ELSE ScanZero(data, index + 1)

SpInit ==
    \E strings \in PackerInputs :
        sp = [pc |-> "input", strings |-> strings, data |-> <<>>,
              curr_index |-> 0, items |-> <<>>]

\* StringPacker::from_strings
SpFromStrings ==
    /\ sp.pc = "input"
    /\ sp' = [sp EXCEPT !.pc = "packed", !.data = PackerFromStrings(sp.strings).data]
    /\ UNCHANGED <<de, cq, gk, ex, rn>>

\* StringPacker::iter: a fresh iterator starts at offset 0.
SpIter ==
    /\ sp.pc \in {"packed", "done"}
    /\ sp' = [sp EXCEPT !.pc = "iter", !.curr_index = 0, !.items = <<>>]
    /\ UNCHANGED <<de, cq, gk, ex, rn>>

\* StringPackerIterator::next
SpNext ==
    /\ sp.pc = "iter"
    /\ IF sp.curr_index >= Len(sp.data)
       THEN sp' = [sp EXCEPT !.pc = "done"]
       ELSE LET index == ScanZero(sp.data, sp.curr_index) IN
            IF index >= Len(sp.data)
            THEN sp' = [sp EXCEPT !.pc = "panic"]
            ELSE sp' = [sp EXCEPT
                          !.items = Append(@, SubSeq(sp.data, sp.curr_index + 1, index)),
                          !.curr_index = index + 1]
    /\ UNCHANGED <<de, cq, gk, ex, rn>>

SpNextAction == SpFromStrings \/ SpIter \/ SpNext

InitPacker == SpInit /\ de = Idle /\ cq = Idle /\ gk = Idle /\ ex = Idle /\ rn = Idle

SpecPacker == InitPacker /\ [][SpNextAction]_vars

NoZeroByte(strings) ==
    \A i \in 1..Len(strings) : IsSome(strings[i]) => 0 \notin Range(Unwrap(strings[i]))

\* What iteration is to yield for an input: the string, "" for None.
Expected(strings) ==
    [i \in 1..Len(strings) |-> IF IsSome(strings[i]) THEN Unwrap(strings[i]) ELSE <<>>]

\* C1: for every input sequence of optional strings without a zero byte, a
\* fresh iteration of the packed strings never panics, yields the inputs in
\* order (None as the empty string) while it runs, and ends having yielded
\* exactly as many items as the input holds.
C1_RoundTrip ==
    (sp.pc \in {"iter", "done", "panic"} /\ NoZeroByte(sp.strings)) =>
        /\ sp.pc # "panic"
        /\ Len(sp.items) <= Len(sp.strings)
        /\ sp.items = SubSeq(Expected(sp.strings), 1, Len(sp.items))
        /\ sp.pc = "done" => sp.items = Expected(sp.strings)

\* A finished iteration over an input that holds a None, an empty string and a
\* non-empty string free of zero bytes.
C1_Witness ==
    /\ sp.pc = "done"
    /\ NoZeroByte(sp.strings)
    /\ Len(sp.strings) = MaxStrings
    /\ \E i \in 1..Len(sp.strings) : sp.strings[i] = None
    /\ \E i \in 1..Len(sp.strings) : IsSome(sp.strings[i]) /\ Len(Unwrap(sp.strings[i])) = MaxStrLen
    /\ sp.items = Expected(sp.strings)

(***************************************************************************)
(* columns/strings.rs: DictEncodedStrings<I, S>.                           *)
(* The dictionary only hashes and compares its strings, so a string is an  *)
(* opaque identifier here, a natural number.  The HashSet of unique values *)
(* is the sequence in which its into_iter() yields them: an arbitrary      *)
(* order without repetition, fixed when the set is handed over.            *)
(***************************************************************************)
\* Number of distinct strings and longest input that are enumerated in full.
MaxDictVals == 2
MaxDictLen == 3

\* u16::MAX, the ceiling from_strings asserts.
U16_MAX == 65535

\* Integer code types I (PrimInt) the dictionary is instantiated with.
CodeTypes == {"u8", "u16", "i32"}

\* The largest value of a code type: what NumCast::from accepts.
MaxValue(I) ==
    CASE I = "u8" -> 255
      [] I = "u16" -> 65535
      [] I = "i32" -> 2147483647

\* Inputs that are not enumerated in full: n distinct strings, each once, for
\* the counts n next to the ceilings of the code types and of the assertion.
WideCounts == {255, 256, 257, 65536}

Distinct(strings) == Range(strings)

\* All orders in which a set can be iterated.
Orders(S) ==
    {o \in [1..Cardinality(S) -> S] : \A i, j \in 1..Cardinality(S) : o[i] = o[j] => i = j}

\* The unique values handed over with an input: its distinct values, or these
\* with one more value, or with one value missing.
UniqueSets(strings) ==
    {Distinct(strings)}
        \cup {Distinct(strings) \cup {o} : o \in Options(1..MaxDictVals)}
        \cup {Distinct(strings) \ {o} : o \in Options(1..MaxDictVals)}

DictSmallInputs ==
    UNION {{[strings |-> strings, unique_values |-> u] :
                u \in UNION {Orders(S) : S \in UniqueSets(strings)}} :
           strings \in SeqsUpTo(Options(1..MaxDictVals), MaxDictLen)}

DictWideInputs ==
    UNION {{[strings |-> [i \in 1..n |-> Some(i)], unique_values |-> [i \in 1..n |-> Some(i)]],
            [strings |-> [i \in 1..n |-> Some(i)], unique_values |-> [i \in 1..n |-> Some(n + 1 - i)]]} :
           n \in WideCounts}

\* Mutation of IndexOf: the codes are assigned from 1 (zip(1..)).
IndexOfFromOne(mapping, o) == CHOOSE j \in 1..Len(mapping) : mapping[j] = o

\* reverse_mapping[o]: mapping.iter().zip(0..) collected into a HashMap, looked
\* up for o.  Only applied when o is a key.
IndexOf(mapping, o) == (CHOOSE j \in 1..Len(mapping) : mapping[j] = o) - 1

\* DictEncodedStrings::from_strings.  The result is the dictionary, or a panic:
\* the assertion on the number of unique values, the HashMap index of a string
\* that is no key, or the unwrap of a NumCast::from that does not fit I.
DictFromStrings(I, strings, unique_values) ==
    IF ~(Len(unique_values) <= U16_MAX)
    THEN [panic |-> "assert"]
    ELSE LET mapping == unique_values IN
         IF \E i \in 1..Len(strings) : strings[i] \notin Range(mapping)
         THEN [panic |-> "index"]
         ELSE LET codes == [i \in 1..Len(strings) |-> IndexOf(mapping, strings[i])] IN
              IF \E i \in 1..Len(codes) : codes[i] > MaxValue(I)
              THEN [panic |-> "unwrap"]
              ELSE [panic |-> "no", mapping |-> mapping, encoded_values |-> codes]

DeInit ==
    \E in \in DictSmallInputs \cup DictWideInputs, I \in CodeTypes :
        de = [pc |-> "input", I |-> I, strings |-> in.strings,
              unique_values |-> in.unique_values,
              mapping |-> <<>>, encoded_values |-> <<>>, pos |-> 0, items |-> <<>>]

\* DictEncodedStrings::from_strings
DeFromStrings ==
    /\ de.pc = "input"
    /\ LET d == DictFromStrings(de.I, de.strings, de.unique_values) IN
       IF d.panic # "no"
       THEN de' = [de EXCEPT !.pc = "panic"]
       ELSE de' = [de EXCEPT !.pc = "encoded", !.mapping = d.mapping,
                             !.encoded_values = d.encoded_values]
    /\ UNCHANGED <<sp, cq, gk, ex, rn>>

\* ColumnData::iter for DictEncodedStrings: a fresh DictEncodedStringsIterator.
DeIter ==
    /\ de.pc \in {"encoded", "done"}
    /\ de' = [de EXCEPT !.pc = "iter", !.pos = 0, !.items = <<>>]
    /\ UNCHANGED <<sp, cq, gk, ex, rn>>

\* DictEncodedStringsIterator::next: the next code indexes the mapping table.
DeNext ==
    /\ de.pc = "iter"
    /\ IF de.pos >= Len(de.encoded_values)
       THEN de' = [de EXCEPT !.pc = "done"]
       ELSE LET encoded_value == de.encoded_values[de.pos + 1] IN
            IF encoded_value < 0 \/ encoded_value >= Len(de.mapping)
            THEN de' = [de EXCEPT !.pc = "panic"]
            ELSE de' = [de EXCEPT !.items = Append(@, de.mapping[encoded_value + 1]),
                                  !.pos = de.pos + 1]
    /\ UNCHANGED <<sp, cq, gk, ex, rn>>

DeNextAction == DeFromStrings \/ DeIter \/ DeNext

InitDict == DeInit /\ sp = Idle /\ cq = Idle /\ gk = Idle /\ ex = Idle /\ rn = Idle

SpecDict == InitDict /\ [][DeNextAction]_vars

\* The unique values handed over are exactly the distinct values of the input.
UniqueIsDistinct == Range(de.unique_values) = Distinct(de.strings)

\* The dictionary decodes to the input: no panic, valid codes, and the items
\* yielded so far are the input's prefix, all of it once iteration has ended.
DictRoundTrip ==
    /\ de.pc # "panic"
    /\ de.pc # "input" =>
          /\ Len(de.encoded_values) = Len(de.strings)
          /\ \A i \in 1..Len(de.encoded_values) :
                de.encoded_values[i] \in 0..(Len(de.mapping) - 1)
    /\ Len(de.items) <= Len(de.strings)
    /\ \A i \in 1..Len(de.items) : de.items[i] = de.strings[i]
    /\ de.pc = "done" => de.items = de.strings

\* C2 as stated: whenever the unique values are the distinct values and their
\* number is within the ceiling of the code type I, from_strings and iteration
\* give back the input with valid codes.
C2_Original ==
    (de.pc # "input" /\ Len(de.unique_values) <= MaxValue(de.I) /\ UniqueIsDistinct)
        => DictRoundTrip

\* C2 amended: the same, for a number of distinct values that is also within
\* the ceiling from_strings asserts for every code type, u16::MAX.
C2_RoundTrip ==
    (de.pc # "input" /\ Len(de.unique_values) <= MaxValue(de.I)
        /\ Len(de.unique_values) <= U16_MAX /\ UniqueIsDistinct)
        => DictRoundTrip

\* A finished iteration over an input with a None between strings, one string
\* repeated, encoded with one-byte codes.
C2_Witness ==
    /\ de.pc = "done"
    /\ de.I = "u8"
    /\ UniqueIsDistinct
    /\ Len(de.strings) = MaxDictLen
    /\ \E i \in 1..Len(de.strings) : de.strings[i] = None
    /\ Cardinality(Distinct(de.strings)) = 2
    /\ de.items = de.strings

(***************************************************************************)
(* 64-bit two's complement integers (i64).  TLC's integers are narrower,   *)
(* so an i64 is the set of the positions of its one bits: 5 is {0, 2},     *)
(* -1 is 0..63 and i64::MIN is {63}.                                       *)
(***************************************************************************)
\* i64::BITS
WordBits == 64

BitPositions == 0..(WordBits - 1)

RECURSIVE Pow2(_)
Pow2(n) == IF n = 0 THEN 1 ELSE 2 * Pow2(n - 1)

\* The i64 of a natural number below 2^31.
I64(n) == {i \in 0..30 : (n \div Pow2(i)) % 2 = 1}

\* The natural number of an i64 in 0..2^31-1.
RECURSIVE NatOf(_)
NatOf(x) == IF x = {} THEN 0 ELSE LET i == CHOOSE j \in x : TRUE IN Pow2(i) + NatOf(x \ {i})

I64_MIN == {WordBits - 1}
I64_MAX == 0..(WordBits - 2)

IsNegative(x) == (WordBits - 1) \in x

\* Position of the highest one bit of a non-zero value.
Msb(x) == CHOOSE i \in x : \A j \in x : j <= i

\* x << s for a shift amount s in 0..63: bits shifted out are lost.
Shl(x, s) == {i + s : i \in x} \cap BitPositions

\* Wrapping addition: carries are propagated until none is left.
RECURSIVE WrappingAdd(_, _)
WrappingAdd(x, y) ==
    IF y = {} THEN x
    ELSE WrappingAdd((x \cup y) \ (x \cap y), Shl(x \cap y, 1))

\* Signed addition overflows iff both operands have the sign the sum lacks.
AddOverflows(x, y) ==
    /\ IsNegative(x) = IsNegative(y)
    /\ IsNegative(WrappingAdd(x, y)) # IsNegative(x)

\* x < y as unsigned numbers: decided by the highest bit they differ in.
UnsignedLess(x, y) ==
    /\ x # y
    /\ Msb((x \cup y) \ (x \cap y)) \in y

\* x <= y as i64.
SignedLessEq(x, y) ==
    \/ x = y
    \/ IsNegative(x) /\ ~IsNegative(y)
    \/ IsNegative(x) = IsNegative(y) /\ UnsignedLess(x, y)

\* `x as u8` for an i64: the low eight bits, as a number.
AsU8(x) == NatOf(x \cap 0..7)

(***************************************************************************)
(* engine/types.rs (Type, BasicType, EncodingType) and the ColumnCodec     *)
(* trait of mem_store/column.rs, as query_plan.rs uses them.               *)
(***************************************************************************)
BasicTypes == {"Integer", "String", "Boolean"}

\* A codec: the column it encodes, the encoding of its codes, the range of the
\* codes when statically known (an Option of <<min, max>>, both i64), and
\* whether comparing and summing codes agrees with the decoded values.
Codec(col, et, range, order, summation) ==
    [col |-> col, encoding_type |-> et, encoding_range |-> range,
     is_order_preserving |-> order, is_summation_preserving |-> summation]

\* Type::new(basic, codec): a vector type, not scalar, not mutable.
TypeNew(basic, codec) ==
    [decoded |-> basic, codec |-> codec, is_scalar |-> FALSE, is_mutable |-> FALSE]

\* Type::scalar(basic): the type of a constant.
TypeScalar(basic) ==
    [decoded |-> basic, codec |-> None, is_scalar |-> TRUE, is_mutable |-> FALSE]

\* Type::mutable
TypeMutable(t) == [t EXCEPT !.is_mutable = TRUE]

\* Type::bit_vec: the type of a boolean combination.
TypeBitVec == TypeMutable(TypeNew("Boolean", None))

\* Type::is_encoded
IsEncoded(t) == IsSome(t.codec)

\* Type::decoded: the codec removed.
TypeDecoded(t) == [t EXCEPT !.codec = None]

\* The natural encoding of a logical type.
NaturalEncoding(basic) ==
    CASE basic = "Integer" -> "I64"
      [] basic = "String" -> "Str"
      [] basic = "Boolean" -> "BitVec"

\* Type::encoding_type: the codec's encoding when encoded, else the natural one.
EncodingTypeOf(t) ==
    IF IsSome(t.codec) THEN Unwrap(t.codec).encoding_type ELSE NaturalEncoding(t.decoded)

\* Type::is_summation_preserving, Type::is_order_preserving
IsSummationPreserving(t) ==
    IF IsSome(t.codec) THEN Unwrap(t.codec).is_summation_preserving ELSE TRUE

IsOrderPreserving(t) ==
    IF IsSome(t.codec) THEN Unwrap(t.codec).is_order_preserving ELSE TRUE

\* A column: its logical type and its codec, if its data is encoded.
\* Column::data().full_type() and Column::data().to_codec().
Column(basic, codec) == [basic |-> basic, codec |-> codec]

FullType(c) == TypeNew(c.basic, c.codec)

ToCodec(c) == c.codec

(***************************************************************************)
(* engine/query_plan.rs: QueryPlan and create_query_plan.                  *)
(* A plan, an expression and a result are tuples that start with their     *)
(* variant's name.                                                         *)
(***************************************************************************)
ReadColumn(codec) == <<"ReadColumn", codec>>
DecodeColumn(col) == <<"DecodeColumn", col>>
ReadBuffer(buffer) == <<"ReadBuffer", buffer>>
DecodeWith(plan, codec) == <<"DecodeWith", plan, codec>>
TypeConversion(plan, initial_type, target_type) ==
    <<"TypeConversion", plan, initial_type, target_type>>
EncodeStrConstant(plan, codec) == <<"EncodeStrConstant", plan, codec>>
EncodeIntConstant(plan, codec) == <<"EncodeIntConstant", plan, codec>>
BitPack(lhs, rhs, shift) == <<"BitPack", lhs, rhs, shift>>
BitUnpack(inner, shift, width) == <<"BitUnpack", inner, shift, width>>
LessThanVS(left_type, lhs, rhs) == <<"LessThanVS", left_type, lhs, rhs>>
EqualsVS(left_type, lhs, rhs) == <<"EqualsVS", left_type, lhs, rhs>>
And(lhs, rhs) == <<"And", lhs, rhs>>
Or(lhs, rhs) == <<"Or", lhs, rhs>>
SortIndices(plan, descending) == <<"SortIndices", plan, descending>>
EncodedGroupByPlaceholder == <<"EncodedGroupByPlaceholder">>
Constant(c) == <<"Constant", c>>

\* syntax/expression.rs: Expr.  RawVal: <<"Int", i>> or <<"Str", s>>.
ColName(name) == <<"ColName", name>>
Func(op, lhs, rhs) == <<"Func", op, lhs, rhs>>
Const(v) == <<"Const", v>>

\* RawVal::get_type
RawValType(v) == IF v[1] = "Int" THEN "Integer" ELSE "String"

\* Result<(QueryPlan, Type), QueryError>
Ok(plan, type) == <<"Ok", plan, type>>
Err(kind) == <<"Err", kind>>
IsOk(r) == r[1] = "Ok"

\* Mutation of LtTypes: `<` accepts any two operands of one logical type.
LtTypesSame(lhs, rhs) == IF lhs = rhs THEN "Integer" ELSE "TypeError"

\* The match on (type_lhs.decoded, type_rhs.decoded) of `<`: the arm taken.
LtTypes(lhs, rhs) ==
    IF lhs = "Integer" /\ rhs = "Integer" THEN "Integer" ELSE "TypeError"

\* The match on (type_lhs.decoded, type_rhs.decoded) of `=`: the arm taken.
EqualsTypes(lhs, rhs) ==
    IF lhs = "String" /\ rhs = "String" THEN "String"
    ELSE IF lhs = "Integer" /\ rhs = "Integer" THEN "Integer"
    ELSE "TypeError"

\* Mutation of EncodeConstant: the constant is never encoded.
EncodeConstantNever(arm, type_lhs, plan_rhs) == plan_rhs

\* The right child of a comparison: the constant, encoded with the codec of the
\* left operand when that is encoded.
EncodeConstant(arm, type_lhs, plan_rhs) ==
    IF IsEncoded(type_lhs)
    THEN IF arm = "Integer"
         THEN EncodeIntConstant(plan_rhs, Unwrap(type_lhs.codec))
         ELSE EncodeStrConstant(plan_rhs, Unwrap(type_lhs.codec))
    ELSE plan_rhs

\* One arm of Func(LT, ..) and Func(Equals, ..) once the operands compiled.
CompileComparison(op, arm, l, r) ==
    IF arm = "TypeError" THEN Err("TypeError")
    ELSE IF ~r[3].is_scalar THEN Err("NotImplemented")
    ELSE LET rhs == EncodeConstant(arm, l[3], r[2])
             plan == IF op = "LT"
                     THEN LessThanVS(EncodingTypeOf(l[3]), l[2], rhs)
                     ELSE EqualsVS(EncodingTypeOf(l[3]), l[2], rhs)
         IN  Ok(plan, TypeMutable(TypeNew("Boolean", None)))

\* Func(Or, ..) and Func(And, ..) once the operands compiled.
CompileBoolean(op, l, r) ==
    IF l[3].decoded # "Boolean" \/ r[3].decoded # "Boolean"
    THEN Err("TypeError")
    ELSE Ok(IF op = "Or" THEN Or(l[2], r[2]) ELSE And(l[2], r[2]), TypeBitVec)

\* QueryPlan::create_query_plan.  columns maps the names it knows to columns.
RECURSIVE CreateQueryPlan(_, _)
CreateQueryPlan(expr, columns) ==
    CASE expr[1] = "ColName" ->
            IF expr[2] \in DOMAIN columns
            THEN LET c == columns[expr[2]]
                     t == FullType(c)
                 IN  IF IsSome(ToCodec(c))
                     THEN Ok(ReadColumn(Unwrap(ToCodec(c))), t)
                     ELSE Ok(DecodeColumn(expr[2]), TypeDecoded(t))
            ELSE Err("NotImplemented")
      [] expr[1] = "Const" -> Ok(Constant(expr[2]), TypeScalar(RawValType(expr[2])))
      [] expr[1] = "Func" /\ expr[2] \in {"LT", "Equals", "Or", "And"} ->
            LET l == CreateQueryPlan(expr[3], columns) IN
            IF ~IsOk(l) THEN l
            ELSE LET r == CreateQueryPlan(expr[4], columns) IN
                 IF ~IsOk(r) THEN r
                 ELSE CASE expr[2] = "LT" ->
                              CompileComparison("LT", LtTypes(l[3].decoded, r[3].decoded), l, r)
                        [] expr[2] = "Equals" ->
                              CompileComparison("Equals", EqualsTypes(l[3].decoded, r[3].decoded), l, r)
                        [] OTHER -> CompileBoolean(expr[2], l, r)
      [] OTHER -> Err("NotImplemented")

(***************************************************************************)
(* SpecCompile: create_query_plan on the expressions over one table.       *)
(***************************************************************************)
\* The table: an encoded and a plain integer column, a dictionary encoded and
\* a plain string column.  The name "missing" is no column of it.
CompileColumns ==
    [ie |-> Column("Integer", Some(Codec("ie", "U8", Some(<<I64(0), I64(3)>>), TRUE, TRUE))),
     id |-> Column("Integer", None),
     se |-> Column("String", Some(Codec("se", "U16", None, FALSE, FALSE))),
     sd |-> Column("String", None)]

Leaves ==
    {ColName(n) : n \in {"ie", "id", "se", "sd", "missing"}}
        \cup {Const(<<"Int", 1>>), Const(<<"Str", "abc">>)}

\* GT stands for the function types create_query_plan has no arm for.
FuncTypes == {"LT", "Equals", "Or", "And", "GT"}

FlatExprs == {Func(op, l, r) : op \in FuncTypes, l \in Leaves, r \in Leaves}

\* Operands of the nested expressions: the leaves and comparisons that compile
\* to a boolean, with and without an encoded constant, or fail.
NestedOperands ==
    Leaves \cup {Func("LT", ColName("id"), Const(<<"Int", 1>>)),
                 Func("LT", ColName("ie"), Const(<<"Int", 1>>)),
                 Func("Equals", ColName("se"), Const(<<"Str", "abc">>)),
                 Func("Equals", ColName("id"), ColName("id")),
                 Func("LT", ColName("sd"), Const(<<"Int", 1>>))}

NestedExprs == {Func(op, l, r) : op \in FuncTypes, l \in NestedOperands, r \in NestedOperands}

Exprs == Leaves \cup FlatExprs \cup NestedExprs

CqInit ==
    \E expr \in Exprs :
        cq = [pc |-> "input", expr |-> expr, columns |-> CompileColumns, result |-> None]

\* QueryPlan::create_query_plan
CqCompile ==
    /\ cq.pc = "input"
    /\ cq' = [cq EXCEPT !.pc = "done", !.result = Some(CreateQueryPlan(cq.expr, cq.columns))]
    /\ UNCHANGED <<sp, de, gk, ex, rn>>

CqNextAction == CqCompile

InitCompile == CqInit /\ sp = Idle /\ de = Idle /\ gk = Idle /\ ex = Idle /\ rn = Idle

SpecCompile == InitCompile /\ [][CqNextAction]_vars

\* The call compiled a `<` or `=` whose two operands both compile.
ComparisonCompiled ==
    /\ cq.pc = "done"
    /\ cq.expr[1] = "Func"
    /\ cq.expr[2] \in {"LT", "Equals"}
    /\ IsOk(CreateQueryPlan(cq.expr[3], cq.columns))
    /\ IsOk(CreateQueryPlan(cq.expr[4], cq.columns))

CqLhs == CreateQueryPlan(cq.expr[3], cq.columns)
CqRhs == CreateQueryPlan(cq.expr[4], cq.columns)
CqResult == Unwrap(cq.result)

\* The pairs of logical types a comparison accepts.
Compatible(op, lhs, rhs) ==
    \/ lhs = "Integer" /\ rhs = "Integer"
    \/ op = "Equals" /\ lhs = "String" /\ rhs = "String"

\* C4: a `<` or `=` whose operands both compile and whose logical types are no
\* accepted pair yields TypeError, and so no plan, whatever the scalarity of
\* the right operand and the encoding of the left one.
C4_TypeRejection ==
    (ComparisonCompiled /\ ~Compatible(cq.expr[2], CqLhs[3].decoded, CqRhs[3].decoded))
        => CqResult = Err("TypeError")

\* Rejected comparisons of each kind the claim names: an encoded and a plain
\* left operand, a scalar and a vector right operand, a boolean operand.
C4_WitnessEncodedScalar ==
    /\ ComparisonCompiled /\ CqResult = Err("TypeError")
    /\ cq.expr[2] = "LT" /\ IsEncoded(CqLhs[3]) /\ CqRhs[3].is_scalar

C4_WitnessPlainVector ==
    /\ ComparisonCompiled /\ CqResult = Err("TypeError")
    /\ cq.expr[2] = "Equals" /\ ~IsEncoded(CqLhs[3]) /\ ~CqRhs[3].is_scalar

C4_Witness ==
    /\ ComparisonCompiled /\ CqResult = Err("TypeError")
    /\ cq.expr[2] = "LT"
    /\ CqLhs[3].decoded = "String" /\ CqRhs[3].decoded = "String"
    /\ IsEncoded(CqLhs[3]) /\ CqRhs[3].is_scalar

\* C6: a `<` or `=` with an accepted pair of types fails with NotImplemented
\* when its right operand is a vector; otherwise it is the comparison node
\* tagged with the left operand's current encoding, over the left plan as
\* compiled and the constant, which is wrapped in EncodeIntConstant or
\* EncodeStrConstant with the left codec exactly when the left operand is
\* encoded; its type is a mutable, non-scalar boolean without codec.
C6_Comparison ==
    (ComparisonCompiled /\ Compatible(cq.expr[2], CqLhs[3].decoded, CqRhs[3].decoded)) =>
        IF ~CqRhs[3].is_scalar
        THEN CqResult = Err("NotImplemented")
        ELSE /\ IsOk(CqResult)
             /\ CqResult[2][1] = (IF cq.expr[2] = "LT" THEN "LessThanVS" ELSE "EqualsVS")
             /\ CqResult[2][2] = EncodingTypeOf(CqLhs[3])
             /\ CqResult[2][3] = CqLhs[2]
             /\ CqResult[2][4] =
                   (IF IsSome(CqLhs[3].codec)
                    THEN <<(IF CqLhs[3].decoded = "Integer"
                            THEN "EncodeIntConstant" ELSE "EncodeStrConstant"),
                           CqRhs[2], Unwrap(CqLhs[3].codec)>>
                    ELSE CqRhs[2])
             /\ CqResult[3] = [decoded |-> "Boolean", codec |-> None,
                               is_scalar |-> FALSE, is_mutable |-> TRUE]

\* A string equality compiled against a dictionary encoded column: the constant
\* is encoded, the column is read encoded.
C6_Witness ==
    /\ ComparisonCompiled
    /\ cq.expr = Func("Equals", ColName("se"), Const(<<"Str", "abc">>))
    /\ CqResult[2] = EqualsVS("U16", ReadColumn(Unwrap(CompileColumns.se.codec)),
                              EncodeStrConstant(Constant(<<"Str", "abc">>),
                                                Unwrap(CompileColumns.se.codec)))

(***************************************************************************)
(* engine/query_plan.rs: compile_grouping_key.                             *)
(* The arithmetic on total_width and largest_key is i64 arithmetic: in a    *)
(* build with overflow checks ("debug") an overflowing += and a shift by an *)
(* amount outside 0..63 panic, in a build without ("release") the sum wraps *)
(* and the shift amount is taken modulo 64.                                *)
(***************************************************************************)
Builds == {"debug", "release"}

\* f64::MANTISSA_DIGITS: `max as f64` keeps the 53 highest bits of max, rounded
\* to nearest, ties to even.
F64MantissaDigits == 53

\* (max as f64).log2().floor() as i64 for max >= 0.  For max = 0 the logarithm
\* is -inf and the cast gives i64::MIN.  Otherwise the result is the position
\* of the highest bit of max, or one more when the conversion to f64 rounds
\* max up to the next power of two: when the 54 highest bits from the leading
\* one are all ones.  (log2 itself is taken as exact to its floor: the ranges
\* of the model hold no other value within 2^-48 of a power of two.)
Log2Floor(max) ==
    IF max = {} THEN I64_MIN
    ELSE LET p == Msb(max) IN
         IF p >= F64MantissaDigits /\ (p - F64MantissaDigits)..p \subseteq max
         THEN I64(p + 1)
         ELSE I64(p)

\* QueryPlan::encoding_range: known for a ReadColumn whose codec knows it.
EncodingRange(plan) ==
    IF plan[1] = "ReadColumn" THEN plan[2].encoding_range ELSE None

\* A shift amount is valid when it is in 0..63.
ValidShift(s) == s \subseteq 0..5

\* x << s on i64 in the given build; <<"Panic">> or <<"Val", v>>.
CheckedShl(x, s, build) ==
    IF ValidShift(s) THEN <<"Val", Shl(x, NatOf(s))>>
    ELSE IF build = "debug" THEN <<"Panic">>
    ELSE <<"Val", Shl(x, NatOf(s \cap 0..5))>>

\* x + y on i64 in the given build.
CheckedAdd(x, y, build) ==
    IF AddOverflows(x, y) /\ build = "debug" THEN <<"Panic">>
    ELSE <<"Val", WrappingAdd(x, y)>>

Reverse(s) == [i \in 1..Len(s) |-> s[Len(s) + 1 - i]]

\* Mutation of NextTotalWidth: the width of the column is not accumulated.
NextTotalWidthStuck(total_width, bits, build) == <<"Val", total_width>>

\* total_width += bits
NextTotalWidth(total_width, bits, build) == CheckedAdd(total_width, bits, build)

\* The state of the loop over the two expressions: the locals of the function
\* and how the loop goes on ("run"), has left by break ("break"), by the ? of
\* create_query_plan ("err", with the error) or by a panic ("panic").
GkLocals ==
    [total_width |-> I64(0), largest_key |-> I64(0), plan |-> None,
     decode_plans |-> <<>>, at |-> "run", err |-> None]

\* One iteration of the loop `for expr in exprs.iter().rev()`.
GkIteration(acc, expr, columns, build) ==
    LET compiled == CreateQueryPlan(expr, columns) IN
    IF ~IsOk(compiled) THEN [acc EXCEPT !.at = "err", !.err = Some(compiled)]
    ELSE
    LET query_plan == compiled[2]
        plan_type == compiled[3]
        range == EncodingRange(query_plan)
    IN
    IF ~IsSome(range) THEN [acc EXCEPT !.plan = None, !.at = "break"]
    ELSE
    LET min == Unwrap(range)[1]
        max == Unwrap(range)[2]
    IN
    IF IsNegative(min) THEN [acc EXCEPT !.plan = None, !.at = "break"]
    ELSE
    LET converted == TypeConversion(query_plan, EncodingTypeOf(plan_type), "I64")
        bits == WrappingAdd(Log2Floor(max), I64(1))
        plan == IF acc.total_width = I64(0)
                THEN Some(converted)
                ELSE IF IsSome(acc.plan)
                     THEN Some(BitPack(Unwrap(acc.plan), converted, acc.total_width))
                     ELSE None
        unpack == TypeConversion(
                      BitUnpack(EncodedGroupByPlaceholder, AsU8(acc.total_width), AsU8(bits)),
                      "I64", EncodingTypeOf(plan_type))
        decode_plan == IF IsSome(plan_type.codec)
                       THEN DecodeWith(unpack, Unwrap(plan_type.codec))
                       ELSE unpack
        shifted == CheckedShl(max, acc.total_width, build)
    IN
    IF shifted[1] = "Panic" THEN [acc EXCEPT !.at = "panic"]
    ELSE
    LET largest_key == CheckedAdd(acc.largest_key, shifted[2], build)
        total_width == NextTotalWidth(acc.total_width, bits, build)
    IN
    IF largest_key[1] = "Panic" \/ total_width[1] = "Panic"
    THEN [acc EXCEPT !.at = "panic"]
    ELSE [acc EXCEPT !.plan = plan,
                     !.decode_plans = Append(@, decode_plan),
                     !.largest_key = largest_key[2],
                     !.total_width = total_width[2]]

\* The loop, from the last expression to the first.
RECURSIVE GkLoop(_, _, _, _, _)
GkLoop(acc, exprs, i, columns, build) ==
    IF i = 0 \/ acc.at # "run" THEN acc
    ELSE GkLoop(GkIteration(acc, exprs[i], columns, build), exprs, i - 1, columns, build)

\* The result of compile_grouping_key: <<"Ok", plan, type, max key, decode
\* plans>>, <<"Err", kind>> or <<"Panic">>.
GkOk(plan, type, largest_key, decode_plans) == <<"Ok", plan, type, largest_key, decode_plans>>

\* The branch exprs.len() == 1.
CompileSingleKey(expr, columns) ==
    LET compiled == CreateQueryPlan(expr, columns) IN
    IF ~IsOk(compiled) THEN compiled
    ELSE LET gk_plan == compiled[2]
             gk_type == compiled[3]
             range == EncodingRange(gk_plan)
             max_cardinality == IF IsSome(range) THEN Unwrap(range)[2] ELSE Shl(I64(1), 63)
             decoded_group_by == IF IsSome(gk_type.codec)
                                 THEN DecodeWith(EncodedGroupByPlaceholder, Unwrap(gk_type.codec))
                                 ELSE EncodedGroupByPlaceholder
         IN  GkOk(gk_plan, gk_type, max_cardinality, <<decoded_group_by>>)

\* The branch exprs.len() == 2.
CompilePackedKey(exprs, columns, build) ==
    LET acc == GkLoop(GkLocals, exprs, Len(exprs), columns, build) IN
    CASE acc.at = "err" -> Unwrap(acc.err)
      [] acc.at = "panic" -> <<"Panic">>
      [] OTHER ->
            IF IsSome(acc.plan) /\ SignedLessEq(acc.total_width, I64(64))
            THEN GkOk(Unwrap(acc.plan), TypeNew("Integer", None), acc.largest_key,
                      Reverse(acc.decode_plans))
            ELSE Err("NotImplemented")

\* QueryPlan::compile_grouping_key
CompileGroupingKey(exprs, columns, build) ==
    IF Len(exprs) = 1 THEN CompileSingleKey(exprs[1], columns)
    ELSE IF Len(exprs) = 2 THEN CompilePackedKey(exprs, columns, build)
    ELSE Err("NotImplemented")

(***************************************************************************)
(* The value a plan computes for one row (engine/vector_op): the operators *)
(* the grouping key plans lower to.  A row gives each column's stored       *)
(* value; key is the value of the stage's group key buffer.                 *)
(***************************************************************************)
\* The bits shift..shift+width-1 of x, moved down to position 0.
UnpackBits(x, shift, width) ==
    {i - shift : i \in {j \in x : shift <= j /\ j < shift + width}}

RECURSIVE EvalPlan(_, _, _, _)
EvalPlan(plan, row, key, build) ==
    CASE plan[1] = "ReadColumn" -> <<"Val", row[plan[2].col]>>
      [] plan[1] = "DecodeColumn" -> <<"Val", row[plan[2]]>>
      [] plan[1] = "EncodedGroupByPlaceholder" -> <<"Val", key>>
      [] plan[1] = "TypeConversion" -> EvalPlan(plan[2], row, key, build)
      [] plan[1] = "BitPack" ->
            LET lhs == EvalPlan(plan[2], row, key, build)
                rhs == EvalPlan(plan[3], row, key, build)
            IN  IF lhs[1] = "Panic" \/ rhs[1] = "Panic" THEN <<"Panic">>
                ELSE LET shifted == CheckedShl(rhs[2], plan[4], build) IN
                     IF shifted[1] = "Panic" THEN <<"Panic">>
                     ELSE <<"Val", WrappingAdd(lhs[2], shifted[2])>>
      [] plan[1] = "BitUnpack" ->
            LET inner == EvalPlan(plan[2], row, key, build) IN
            IF inner[1] = "Panic" THEN <<"Panic">>
            ELSE <<"Val", UnpackBits(inner[2], plan[3], plan[4])>>
      [] OTHER -> <<"Panic">>

\* The bit-unpack part of a decode plan: the plan below its DecodeWith.
UnpackPlan(decode_plan) ==
    IF decode_plan[1] = "DecodeWith" THEN decode_plan[2] ELSE decode_plan

(***************************************************************************)
(* SpecGroupingKey: compile_grouping_key over a table of two columns, and  *)
(* the evaluation of the plans it returned on rows of that table.          *)
(***************************************************************************)
MinusOne == BitPositions

\* The encoding ranges of the columns: unknown, with a negative minimum, and
\* non-negative ones whose maxima need 0, 1, 2, 31, 32, 63 bits and, for
\* i64::MAX, 63 bits again.
KnownRanges ==
    {<<MinusOne, I64(3)>>,
     <<I64(0), I64(0)>>, <<I64(0), I64(1)>>, <<I64(0), I64(3)>>, <<I64(1), I64(2)>>,
     <<I64(0), 0..30>>, <<I64(0), 0..31>>, <<I64(0), {62}>>, <<I64(0), I64_MAX>>}

GkColumnChoices ==
    {Column("Integer", None)}
        \cup {Column("Integer", Some(Codec("c", "I64", r, TRUE, TRUE))) : r \in Options(KnownRanges)}

\* The column choice named: its codec carries the column's name.
Named(name, c) ==
    IF IsSome(c.codec)
    THEN [c EXCEPT !.codec = Some([Unwrap(c.codec) EXCEPT !.col = name])]
    ELSE c

GkExprLists ==
    {<<>>,
     <<ColName("a")>>, <<ColName("b")>>,
     <<ColName("a"), ColName("b")>>, <<ColName("b"), ColName("a")>>,
     <<ColName("a"), ColName("missing")>>, <<ColName("missing"), ColName("b")>>,
     <<ColName("a"), Func("LT", ColName("b"), Const(<<"Int", 1>>))>>,
     <<Func("LT", ColName("a"), Const(<<"Str", "abc">>)), ColName("b")>>,
     <<ColName("a"), ColName("b"), ColName("a")>>}

\* The values of a column that rows are drawn from: 0, 1, the maximum and its
\* predecessor's low bits for a known range, clipped to the range; 0 and 5 else.
ColumnValues(c) ==
    IF IsSome(c.codec) /\ IsSome(Unwrap(c.codec).encoding_range)
    THEN LET min == Unwrap(Unwrap(c.codec).encoding_range)[1]
             max == Unwrap(Unwrap(c.codec).encoding_range)[2]
         IN  {v \in {I64(0), I64(1), max, max \ {0}, min} :
                 SignedLessEq(min, v) /\ SignedLessEq(v, max)}
    ELSE {I64(0), I64(5)}

GkInit ==
    \E exprs \in GkExprLists, a \in GkColumnChoices, b \in GkColumnChoices, build \in Builds :
        gk = [pc |-> "input", build |-> build, exprs |-> exprs,
              columns |-> [a |-> Named("a", a), b |-> Named("b", b)],
              result |-> None, row |-> None, key |-> None, unpacked |-> <<>>]

\* QueryPlan::compile_grouping_key
GkCompile ==
    /\ gk.pc = "input"
    /\ LET r == CompileGroupingKey(gk.exprs, gk.columns, gk.build) IN
       gk' = [gk EXCEPT !.pc = IF r[1] = "Ok" THEN "compiled" ELSE "failed",
                        !.result = Some(r)]
    /\ UNCHANGED <<sp, de, cq, ex, rn>>

\* One row through the plans returned: the key plan computes the group key,
\* each decode plan's unpack part is applied to that key.
GkEvaluate ==
    /\ gk.pc = "compiled"
    /\ \E va \in ColumnValues(gk.columns.a), vb \in ColumnValues(gk.columns.b) :
        LET row == [a |-> va, b |-> vb]
            r == Unwrap(gk.result)
            key == EvalPlan(r[2], row, {}, gk.build)
        IN  IF key[1] = "Panic"
            THEN gk' = [gk EXCEPT !.pc = "panic", !.row = Some(row)]
            ELSE gk' = [gk EXCEPT
                          !.pc = "evaluated", !.row = Some(row), !.key = Some(key[2]),
                          !.unpacked = [i \in 1..Len(r[5]) |->
                                          EvalPlan(UnpackPlan(r[5][i]), row, key[2], gk.build)]]
    /\ UNCHANGED <<sp, de, cq, ex, rn>>

GkNextAction == GkCompile \/ GkEvaluate

InitGroupingKey == GkInit /\ sp = Idle /\ de = Idle /\ cq = Idle /\ ex = Idle /\ rn = Idle

SpecGroupingKey == InitGroupingKey /\ [][GkNextAction]_vars

GkResult == Unwrap(gk.result)

\* The column an expression names, when it names one of the table.
IsColumnRef(expr) == expr[1] = "ColName" /\ expr[2] \in DOMAIN gk.columns

GkRangeOf(expr) ==
    LET c == gk.columns[expr[2]] IN
    IF IsSome(c.codec) THEN Unwrap(c.codec).encoding_range ELSE None

\* floor(log2(max)) + 1 for max > 0: the number of bits of max.  A maximum
\* of 0 is counted as one bit.
BitWidth(max) == IF max = {} THEN 1 ELSE Msb(max) + 1

\* Two grouping columns with statically known ranges.
TwoKnownColumns ==
    /\ Len(gk.exprs) = 2
    /\ \A i \in 1..2 : IsColumnRef(gk.exprs[i]) /\ IsSome(GkRangeOf(gk.exprs[i]))

GkMin(i) == Unwrap(GkRangeOf(gk.exprs[i]))[1]
GkMax(i) == Unwrap(GkRangeOf(gk.exprs[i]))[2]

CombinedWidth == BitWidth(GkMax(1)) + BitWidth(GkMax(2))

\* The key packs and unpacks: the call returned plans, the unpack plans are in
\* column order with the rightmost column in the lowest bits, and a row that
\* went through them came back as it was.
PackUnpackInverse ==
    /\ gk.pc \notin {"failed", "panic"}
    /\ GkResult[1] = "Ok"
    /\ Len(GkResult[5]) = 2
    /\ \A i \in 1..2 : UnpackPlan(GkResult[5][i])[2][1] = "BitUnpack"
    /\ UnpackPlan(GkResult[5][2])[2][3] = 0
    /\ UnpackPlan(GkResult[5][1])[2][3] = UnpackPlan(GkResult[5][2])[2][4]
    /\ gk.pc = "evaluated" =>
          \A i \in 1..2 : gk.unpacked[i] = <<"Val", Unwrap(gk.row)[gk.exprs[i][2]]>>

\* C3: for two grouping columns with known ranges, min >= 0, and a combined
\* bit width of at most 64, compile_grouping_key succeeds and the unpack plans
\* give back both values of every row from its packed key.
C3_PackUnpackInverse ==
    (gk.pc # "input" /\ TwoKnownColumns
        /\ (\A i \in 1..2 : ~IsNegative(GkMin(i)))
        /\ CombinedWidth <= 64)
        => PackUnpackInverse

\* The same for the maxima on which the computed width is the bit width:
\* positive, and not rounded up to 2^63 by `as f64`.
C3_OrdinaryMaxima ==
    (gk.pc # "input" /\ TwoKnownColumns
        /\ (\A i \in 1..2 : ~IsNegative(GkMin(i)) /\ GkMax(i) # {} /\ GkMax(i) # I64_MAX)
        /\ CombinedWidth <= 64)
        => PackUnpackInverse

\* Every grouping expression of the call compiles by itself.
AllCompile == \A i \in 1..Len(gk.exprs) : IsOk(CreateQueryPlan(gk.exprs[i], gk.columns))

\* The encoding range compile_grouping_key is to find for an expression: that
\* of the column's codec for a reference to an encoded column, none otherwise.
StaticRange(expr) == IF IsColumnRef(expr) THEN GkRangeOf(expr) ELSE None

\* The cases in which two expressions cannot be packed.
SomeRangeUnknown == \E i \in 1..2 : ~IsSome(StaticRange(gk.exprs[i]))

SomeMinNegative ==
    \E i \in 1..2 : IsSome(StaticRange(gk.exprs[i])) /\ IsNegative(Unwrap(StaticRange(gk.exprs[i]))[1])

TooWide == ~SomeRangeUnknown /\ CombinedWidth > 64

\* What compile_grouping_key is to return for expressions that compile:
\* NotImplemented for a number of expressions other than 1 or 2 and for two
\* expressions that cannot be packed, a plan in every other case.
GkOutcome ==
    IF Len(gk.exprs) \notin {1, 2} THEN GkResult = Err("NotImplemented")
    ELSE IF Len(gk.exprs) = 2 /\ (SomeRangeUnknown \/ SomeMinNegative \/ TooWide)
         THEN GkResult = Err("NotImplemented")
         ELSE GkResult[1] = "Ok"

\* C5: compile_grouping_key returns NotImplemented when the number of
\* expressions is not 1 or 2 and, for two expressions, when a range is unknown,
\* a minimum is negative or the combined bit width exceeds 64; in every other
\* case where the expressions compile it returns a plan.
C5_NotImplementedCases ==
    (gk.pc # "input" /\ (Len(gk.exprs) \in {1, 2} => AllCompile)) => GkOutcome

\* The same without the maxima 0 and i64::MAX.
C5_OrdinaryMaxima ==
    (gk.pc # "input" /\ (Len(gk.exprs) \in {1, 2} => AllCompile)
        /\ (Len(gk.exprs) = 2 =>
               \A i \in 1..2 : IsSome(StaticRange(gk.exprs[i])) =>
                   Unwrap(StaticRange(gk.exprs[i]))[2] \notin {{}, I64_MAX}))
        => GkOutcome

(***************************************************************************)
(* engine/query_plan.rs: QueryExecutor, ExecutorStage and the lowering of  *)
(* plans into operators (prepare, prepare_unique, prepare_hashmap_grouping, *)
(* prepare_aggregation).                                                   *)
(*                                                                         *)
(* A BufferRef is its number.  An operator is <<name, inputs, outputs,      *)
(* arguments>>: the buffers it reads, the buffers it writes, and the rest   *)
(* of what its constructor was given.  Boolean::or and Boolean::and write   *)
(* their first input.                                                      *)
(***************************************************************************)
Op(name, ins, outs, arg) == <<name, ins, outs, arg>>
OpName(op) == op[1]
OpIns(op) == op[2]
OpOuts(op) == op[3]
OpArg(op) == op[4]

\* engine/filter.rs: Filter.
FilterNone == <<"None">>
FilterBitVec(buffer) == <<"BitVec", buffer>>
FilterIndices(buffer) == <<"Indices", buffer>>

\* ExecutorStage::default
StageDefault == [ops |-> <<>>, encoded_group_by |-> None, filter |-> FilterNone]

\* QueryExecutor::default: one stage, no buffer.  call is the last call made on
\* the executor, with its arguments and what it returned.
ExecutorDefault ==
    [pc |-> "building", stages |-> <<StageDefault>>, count |-> 0, call |-> <<"default">>]

LastStage(e) == e.stages[Len(e.stages)]

\* Mutation of NewBuffer: the handle is taken after the increment.
NewBufferOffByOne(e) == [ex |-> [e EXCEPT !.count = @ + 1], buf |-> e.count + 1]

\* QueryExecutor::new_buffer: count += 1; BufferRef(count - 1).
NewBuffer(e) == [ex |-> [e EXCEPT !.count = @ + 1], buf |-> (e.count + 1) - 1]

\* QueryExecutor::last_buffer
LastBuffer(e) == e.count - 1

\* QueryExecutor::push and ExecutorStage::push
PushOp(e, op) == [e EXCEPT !.stages[Len(e.stages)].ops = Append(@, op)]

\* Mutation of EncodedGroupBy: the group key of the first stage.
EncodedGroupByFirstStage(e) == e.stages[1].encoded_group_by

\* QueryExecutor::encoded_group_by, QueryExecutor::filter
EncodedGroupBy(e) == LastStage(e).encoded_group_by
CurrentFilter(e) == LastStage(e).filter

\* What a lowering step hands on: the executor, the buffer returned, and
\* whether it panicked (the unwrap of an unset group key).
Lowered(e, buf) == [ex |-> e, buf |-> buf, panic |-> FALSE]
Panicked(e) == [ex |-> e, buf |-> 0, panic |-> TRUE]

\* The tail of prepare: result.push(operation); result.last_buffer().
PushAndReturnLast(e, op) == Lowered(PushOp(e, op), LastBuffer(e))

\* Mutation of AccessOp: the filter of the stage is not looked at.
AccessOpUnfiltered(plain, bitvec, indices, col, e) ==
    LET nb == NewBuffer(e) IN
    PushAndReturnLast(nb.ex, Op(plain, <<>>, <<nb.buf>>, <<col>>))

\* The data access operator for the stage's filter.
AccessOp(plain, bitvec, indices, col, e) ==
    LET f == CurrentFilter(e)
        nb == NewBuffer(e)
    IN  PushAndReturnLast(nb.ex,
            CASE f[1] = "None" -> Op(plain, <<>>, <<nb.buf>>, <<col>>)
              [] f[1] = "BitVec" -> Op(bitvec, <<f[2]>>, <<nb.buf>>, <<col>>)
              [] f[1] = "Indices" -> Op(indices, <<f[2]>>, <<nb.buf>>, <<col>>))

\* The operator name and the arguments a one-child or two-children node of
\* the plan lowers to.
NodeOpName(plan) ==
    CASE plan[1] = "DecodeWith" -> "DecodeWith"
      [] plan[1] = "TypeConversion" -> "type_conversion"
      [] plan[1] = "EncodeStrConstant" -> "EncodeStrConstant"
      [] plan[1] = "EncodeIntConstant" -> "EncodeIntConstant"
      [] plan[1] = "BitUnpack" -> "bit_unpack"
      [] plan[1] = "SortIndices" -> "sort_indices"
      [] plan[1] = "BitPack" -> "bit_shift_left_add"
      [] plan[1] = "LessThanVS" -> "less_than_vs"
      [] plan[1] = "EqualsVS" -> "equals_vs"

UnaryNodes == {"DecodeWith", "TypeConversion", "EncodeStrConstant", "EncodeIntConstant",
               "BitUnpack", "SortIndices"}

\* Mutation of BooleanOp: the combination is written to the right operand.
BooleanOpRight(name, lhs, rhs) == Op(name, <<lhs, rhs>>, <<rhs>>, <<>>)

\* Boolean::or(lhs, rhs), Boolean::and(lhs, rhs): the result replaces lhs.
BooleanOp(name, lhs, rhs) == Op(name, <<lhs, rhs>>, <<lhs>>, <<>>)

\* prepare
RECURSIVE Prepare(_, _)
Prepare(plan, e) ==
    CASE plan[1] = "DecodeColumn" ->
            AccessOp("GetDecode", "FilterDecode", "IndexDecode", plan[2], e)
      [] plan[1] = "ReadColumn" ->
            AccessOp("GetEncoded", "FilterEncoded", "IndexEncoded", plan[2].col, e)
      [] plan[1] = "Constant" ->
            LET nb == NewBuffer(e) IN
            PushAndReturnLast(nb.ex, Op("Constant", <<>>, <<nb.buf>>, <<plan[2]>>))
      [] plan[1] \in UnaryNodes ->
            LET inner == Prepare(plan[2], e) IN
            IF inner.panic THEN inner
            ELSE LET nb == NewBuffer(inner.ex) IN
                 PushAndReturnLast(nb.ex,
                     Op(NodeOpName(plan), <<inner.buf>>, <<nb.buf>>, SubSeq(plan, 3, Len(plan))))
      [] plan[1] = "BitPack" ->
            LET lhs == Prepare(plan[2], e) IN
            IF lhs.panic THEN lhs
            ELSE LET rhs == Prepare(plan[3], lhs.ex) IN
                 IF rhs.panic THEN rhs
                 ELSE LET nb == NewBuffer(rhs.ex) IN
                      PushAndReturnLast(nb.ex,
                          Op(NodeOpName(plan), <<lhs.buf, rhs.buf>>, <<nb.buf>>, <<plan[4]>>))
      [] plan[1] \in {"LessThanVS", "EqualsVS"} ->
            LET lhs == Prepare(plan[3], e) IN
            IF lhs.panic THEN lhs
            ELSE LET rhs == Prepare(plan[4], lhs.ex) IN
                 IF rhs.panic THEN rhs
                 ELSE LET nb == NewBuffer(rhs.ex) IN
                      PushAndReturnLast(nb.ex,
                          Op(NodeOpName(plan), <<lhs.buf, rhs.buf>>, <<nb.buf>>, <<plan[2]>>))
      [] plan[1] \in {"Or", "And"} ->
            LET inplace == Prepare(plan[2], e) IN
            IF inplace.panic THEN inplace
            ELSE LET rhs == Prepare(plan[3], inplace.ex) IN
                 IF rhs.panic THEN rhs
                 ELSE Lowered(PushOp(rhs.ex,
                                     BooleanOp(IF plan[1] = "Or" THEN "BooleanOr" ELSE "BooleanAnd",
                                               inplace.buf, rhs.buf)),
                              inplace.buf)
      [] plan[1] = "EncodedGroupByPlaceholder" ->
            IF IsSome(EncodedGroupBy(e)) THEN Lowered(e, Unwrap(EncodedGroupBy(e)))
            ELSE Panicked(e)
      [] plan[1] = "ReadBuffer" -> Lowered(e, plan[2])

\* prepare_unique
PrepareUnique(raw_grouping_key, raw_grouping_key_type, max_cardinality, e) ==
    LET output == NewBuffer(e) IN
    Lowered(PushOp(output.ex,
                   Op("unique", <<raw_grouping_key>>, <<output.buf>>,
                      <<raw_grouping_key_type, max_cardinality>>)),
            output.buf)

\* prepare_hashmap_grouping; the buffer returned is <<unique_out,
\* grouping_key_out, cardinality_out>>.
PrepareHashmapGrouping(raw_grouping_key, grouping_key_type, max_cardinality, e) ==
    LET unique_out == NewBuffer(e)
        grouping_key_out == NewBuffer(unique_out.ex)
        cardinality_out == NewBuffer(grouping_key_out.ex)
    IN  Lowered(PushOp(cardinality_out.ex,
                       Op("hash_map_grouping", <<raw_grouping_key>>,
                          <<unique_out.buf, grouping_key_out.buf, cardinality_out.buf>>,
                          <<grouping_key_type, max_cardinality>>)),
                <<unique_out.buf, grouping_key_out.buf, cardinality_out.buf>>)

\* Mutation of SumInput: the value plan is summed as it is encoded.
SumInputEncoded(plan, plan_type) == [plan |-> plan, type |-> plan_type]

\* The plan and type prepare_aggregation sums: decoded with the codec of the
\* type when the type does not preserve summation.
SumInput(plan, plan_type) ==
    IF ~IsSummationPreserving(plan_type)
    THEN [plan |-> DecodeWith(plan, Unwrap(plan_type.codec)), type |-> TypeDecoded(plan_type)]
    ELSE [plan |-> plan, type |-> plan_type]

\* prepare_aggregation
PrepareAggregation(plan, plan_type, grouping_key, grouping_type, max_index, aggregator, e) ==
    LET output_location == NewBuffer(e) IN
    IF aggregator = "Count"
    THEN Lowered(PushOp(output_location.ex,
                        Op("count", <<grouping_key>>, <<output_location.buf>>,
                           <<grouping_type, max_index, FALSE>>)),
                 output_location.buf)
    ELSE LET in == SumInput(plan, plan_type)
             value == Prepare(in.plan, output_location.ex)
         IN  IF value.panic THEN value
             ELSE Lowered(PushOp(value.ex,
                                 Op("summation", <<value.buf, grouping_key>>,
                                    <<output_location.buf>>,
                                    <<EncodingTypeOf(in.type), grouping_type, max_index, FALSE>>)),
                          output_location.buf)

(***************************************************************************)
(* The executor as a state machine: the calls that build it, and run.      *)
(* run is one call of the program; it is followed here operator by         *)
(* operator.  Nothing else touches the executor while run holds it         *)
(* (&mut self).                                                            *)
(***************************************************************************)
MaxCalls == 2
MaxStages == 2
MaxRuns == 2

\* What the callers of this model pass as max_cardinality and max_index.
MaxCardinality == 4

ExCodecN == Codec("n", "U8", None, TRUE, FALSE)
ExCodecS == Codec("s", "U8", None, TRUE, TRUE)

ExOne == Constant(<<"Int", 1>>)
ExLess == LessThanVS("I64", DecodeColumn("d"), ExOne)
ExEquals == EqualsVS("U8", ReadColumn(ExCodecN), EncodeIntConstant(ExOne, ExCodecN))

\* The buffers a caller holds and passes back in: the most recent one as a
\* buffer to read or a grouping key, the first two as a filter or as the
\* encoded group key.
HeldBuffers(e) == IF e.count = 0 THEN {} ELSE {e.count - 1}
FirstBuffers(e) == {b \in {0, 1} : b < e.count}

\* The plans lowered by prepare.
ExPlans(e) ==
    {DecodeColumn("d"), ReadColumn(ExCodecN), ExLess, EncodedGroupByPlaceholder,
     And(ExLess, ExEquals), Or(And(ExLess, ExEquals), ExLess), And(ExEquals, Or(ExLess, ExEquals)),
     DecodeWith(EncodedGroupByPlaceholder, ExCodecN),
     TypeConversion(BitUnpack(EncodedGroupByPlaceholder, I64(0), I64(2)), "I64", "U8"),
     BitPack(TypeConversion(ReadColumn(ExCodecS), "U8", "I64"),
             TypeConversion(ReadColumn(ExCodecN), "U8", "I64"), I64(2)),
     SortIndices(DecodeColumn("d"), FALSE)}
    \cup {ReadBuffer(b) : b \in HeldBuffers(e)}
    \cup {Or(ReadBuffer(b), ExLess) : b \in HeldBuffers(e)}

\* The typed value plans aggregated by prepare_aggregation.
AggValues ==
    {<<ReadColumn(ExCodecN), TypeNew("Integer", Some(ExCodecN))>>,
     <<ReadColumn(ExCodecS), TypeNew("Integer", Some(ExCodecS))>>,
     <<DecodeColumn("d"), TypeNew("Integer", None)>>,
     <<DecodeWith(ReadColumn(ExCodecN), ExCodecN), TypeNew("Integer", None)>>,
     <<EncodedGroupByPlaceholder, TypeNew("Integer", Some(ExCodecN))>>}

Aggregators == {"Count", "Sum"}

Filters(e) ==
    {FilterNone} \cup {FilterBitVec(b) : b \in FirstBuffers(e) \ {1}}
                 \cup {FilterIndices(b) : b \in FirstBuffers(e) \ {0}}

TotalOps(e) == LET RECURSIVE Sum(_)
                   Sum(i) == IF i = 0 THEN 0 ELSE Len(e.stages[i].ops) + Sum(i - 1)
               IN  Sum(Len(e.stages))

\* The lowering calls made on the executor so far.
Calls(e) == IF e.call[1] = "default" THEN 0 ELSE e.call[2]

RnInit ==
    [pc |-> "idle", runs |-> 0, scratchpad |-> None, stage |-> 0, op |-> 0, log |-> <<>>,
     prev |-> 0]

Max(a, b) == IF a >= b THEN a ELSE b

\* A pc of "done" says that run has returned and the executor has not been
\* touched since: the log is that of the last run.  Operators are only ever
\* appended to the last stage, so those that earlier runs executed are the
\* first prev operators of the executor.
Touched(r) ==
    IF r.pc = "done"
    THEN [r EXCEPT !.pc = "idle", !.scratchpad = None, !.stage = 0, !.op = 0, !.log = <<>>,
                   !.prev = Max(@, Len(r.log))]
    ELSE r

CanBuild == ex.pc = "building" /\ rn.pc \in {"idle", "done"}

\* The executor after a lowering call: what the call left, or the panic.  The
\* call is recorded with what it returned and the buffer count it started from.
AfterCall(res, call) ==
    IF res.panic THEN [res.ex EXCEPT !.pc = "panic", !.call = call]
    ELSE [res.ex EXCEPT !.call = call \o <<res.buf, ex.count>>]

ExNewStage ==
    /\ CanBuild
    /\ Len(ex.stages) < MaxStages
    /\ ex' = [ex EXCEPT !.stages = Append(@, StageDefault),
                        !.call = <<"new_stage", Calls(ex)>>]
    /\ rn' = Touched(rn)
    /\ UNCHANGED <<sp, de, cq, gk>>

ExSetFilter(filters) ==
    /\ CanBuild
    /\ \E filter \in filters :
          ex' = [ex EXCEPT !.stages[Len(ex.stages)].filter = filter,
                           !.call = <<"set_filter", Calls(ex)>>]
    /\ rn' = Touched(rn)
    /\ UNCHANGED <<sp, de, cq, gk>>

ExSetEncodedGroupBy(buffers) ==
    /\ CanBuild
    /\ \E gb \in buffers :
          ex' = [ex EXCEPT !.stages[Len(ex.stages)].encoded_group_by = Some(gb),
                           !.call = <<"set_encoded_group_by", Calls(ex)>>]
    /\ rn' = Touched(rn)
    /\ UNCHANGED <<sp, de, cq, gk>>

ExPrepare(plans) ==
    /\ CanBuild
    /\ Calls(ex) < MaxCalls
    /\ \E plan \in plans :
          ex' = AfterCall(Prepare(plan, ex), <<"prepare", Calls(ex) + 1, TotalOps(ex), plan>>)
    /\ rn' = Touched(rn)
    /\ UNCHANGED <<sp, de, cq, gk>>

ExPrepareUnique ==
    /\ CanBuild
    /\ Calls(ex) < MaxCalls
    /\ \E key \in HeldBuffers(ex) :
          ex' = AfterCall(PrepareUnique(key, "I64", MaxCardinality, ex),
                          <<"prepare_unique", Calls(ex) + 1, TotalOps(ex), key>>)
    /\ rn' = Touched(rn)
    /\ UNCHANGED <<sp, de, cq, gk>>

ExPrepareHashmapGrouping ==
    /\ CanBuild
    /\ Calls(ex) < MaxCalls
    /\ \E key \in HeldBuffers(ex) :
          ex' = AfterCall(PrepareHashmapGrouping(key, "I64", MaxCardinality, ex),
                          <<"prepare_hashmap_grouping", Calls(ex) + 1, TotalOps(ex), key>>)
    /\ rn' = Touched(rn)
    /\ UNCHANGED <<sp, de, cq, gk>>

ExPrepareAggregation(values) ==
    /\ CanBuild
    /\ Calls(ex) < MaxCalls
    /\ \E value \in values, aggregator \in Aggregators, key \in HeldBuffers(ex) :
          ex' = AfterCall(PrepareAggregation(value[1], value[2], key, "I64", MaxCardinality,
                                             aggregator, ex),
                          <<"prepare_aggregation", Calls(ex) + 1, TotalOps(ex), key,
                            value[1], value[2], aggregator>>)
    /\ rn' = Touched(rn)
    /\ UNCHANGED <<sp, de, cq, gk>>

\* Scratchpad::new(count): count empty slots.  id tells the scratchpads of
\* different runs apart; written are the slots some operator has written.
ScratchpadNew(id, count) == [id |-> id, slots |-> count, written |-> {}]

\* Mutation of NextOp: the loop does not move on.
NextOpStuck(op) == op

\* for op in &mut self.ops: the operator after this one.
NextOp(op) == op + 1

\* QueryExecutor::run, up to the first stage.
RnStart ==
    /\ CanBuild
    /\ rn.runs < MaxRuns
    /\ rn' = [pc |-> "running", runs |-> rn.runs + 1,
              scratchpad |-> Some(ScratchpadNew(rn.runs + 1, ex.count)),
              stage |-> 1, op |-> 1, log |-> <<>>,
              prev |-> Max(rn.prev, Len(rn.log))]
    /\ UNCHANGED <<sp, de, cq, gk, ex>>

\* ExecutorStage::run: op.execute(scratchpad) for the next operator of the
\* stage.  An operator writing a slot the scratchpad does not have panics.
RnExecute ==
    /\ rn.pc = "running"
    /\ rn.stage <= Len(ex.stages)
    /\ rn.op <= Len(ex.stages[rn.stage].ops)
    /\ LET operator == ex.stages[rn.stage].ops[rn.op]
           scratchpad == Unwrap(rn.scratchpad)
       IN  IF \E b \in Range(OpOuts(operator)) : b >= scratchpad.slots
           THEN rn' = [rn EXCEPT !.pc = "panic"]
           ELSE rn' = [rn EXCEPT
                          !.scratchpad = Some([scratchpad EXCEPT
                                                  !.written = @ \cup Range(OpOuts(operator))]),
                          !.log = Append(@, <<rn.stage, rn.op, scratchpad.id>>),
                          !.op = NextOp(@)]
    /\ UNCHANGED <<sp, de, cq, gk, ex>>

\* ExecutorStage::run returns; QueryExecutor::run goes to the next stage.
RnNextStage ==
    /\ rn.pc = "running"
    /\ rn.stage <= Len(ex.stages)
    /\ rn.op > Len(ex.stages[rn.stage].ops)
    /\ rn' = [rn EXCEPT !.stage = @ + 1, !.op = 1]
    /\ UNCHANGED <<sp, de, cq, gk, ex>>

\* QueryExecutor::run returns the scratchpad.
RnReturn ==
    /\ rn.pc = "running"
    /\ rn.stage > Len(ex.stages)
    /\ rn' = [rn EXCEPT !.pc = "done"]
    /\ UNCHANGED <<sp, de, cq, gk, ex>>

\* Building an executor.
ExNextAction ==
    \/ ExNewStage
    \/ ExSetFilter(Filters(ex))
    \/ ExSetEncodedGroupBy(FirstBuffers(ex))
    \/ ExPrepare(ExPlans(ex))
    \/ ExPrepareUnique
    \/ ExPrepareHashmapGrouping
    \/ ExPrepareAggregation(AggValues)

InitExecutor ==
    /\ sp = Idle
    /\ de = Idle
    /\ cq = Idle
    /\ gk = Idle
    /\ ex = ExecutorDefault
    /\ rn = Idle

SpecExecutor == InitExecutor /\ [][ExNextAction]_vars

\* Building and running an executor, with fewer plans, filters and group
\* keys to build it from.
RnPlans == {DecodeColumn("d"), ExLess}
RnFilters(e) == {FilterBitVec(b) : b \in FirstBuffers(e) \ {1}}
RnGroupKeys(e) == FirstBuffers(e) \ {1}

RnNextAction ==
    \/ ExNewStage
    \/ ExSetFilter(RnFilters(ex))
    \/ ExSetEncodedGroupBy(RnGroupKeys(ex))
    \/ ExPrepare(RnPlans)
    \/ ExPrepareHashmapGrouping
    \/ RnStart
    \/ RnExecute
    \/ RnNextStage
    \/ RnReturn

InitRun ==
    /\ sp = Idle
    /\ de = Idle
    /\ cq = Idle
    /\ gk = Idle
    /\ ex = ExecutorDefault
    /\ rn = RnInit

SpecRun == InitRun /\ [][RnNextAction]_vars

(***************************************************************************)
(* Properties of the executor.                                             *)
(***************************************************************************)
\* The operators of all stages, in stage order, and where each one is.
RECURSIVE OpsUpTo(_, _)
OpsUpTo(e, s) == IF s = 0 THEN <<>> ELSE OpsUpTo(e, s - 1) \o e.stages[s].ops
AllOps(e) == OpsUpTo(e, Len(e.stages))

RECURSIVE PositionsUpTo(_, _)
PositionsUpTo(e, s) ==
    IF s = 0 THEN <<>>
    ELSE PositionsUpTo(e, s - 1) \o [o \in 1..Len(e.stages[s].ops) |-> <<s, o>>]
Positions(e) == PositionsUpTo(e, Len(e.stages))

\* The operators a successful lowering call appended (no stage is added
\* during a call).
Appended(e) == SubSeq(AllOps(e), e.call[3] + 1, Len(AllOps(e)))

\* The operators the lowering of a plan appends, and those of them that decode.
RECURSIVE PlanOps(_)
PlanOps(plan) ==
    CASE plan[1] \in {"DecodeColumn", "ReadColumn", "Constant"} -> 1
      [] plan[1] \in UnaryNodes -> PlanOps(plan[2]) + 1
      [] plan[1] \in {"BitPack", "Or", "And"} -> PlanOps(plan[2]) + PlanOps(plan[3]) + 1
      [] plan[1] \in {"LessThanVS", "EqualsVS"} -> PlanOps(plan[3]) + PlanOps(plan[4]) + 1
      [] OTHER -> 0

IsBoolean(op) == OpName(op) \in {"BooleanOr", "BooleanAnd"}

AggSumReturned ==
    /\ ex.pc = "building"
    /\ ex.call[1] = "prepare_aggregation"
    /\ ex.call[7] = "Sum"

\* C7: after prepare_aggregation with Sum the last operator appended is the
\* summation, writing the buffer returned.  If the value type does not
\* preserve summation, the operator before it is a DecodeWith with the type's
\* codec, reading the value plan's output and writing the buffer the
\* summation reads, and the summation has the natural encoding of the decoded
\* type.  Otherwise nothing but the value plan's operators precede the
\* summation, which reads the value plan's output buffer with the type's
\* current encoding.
C7_SumDecodes ==
    AggSumReturned =>
        LET key == ex.call[4]
            plan == ex.call[5]
            type == ex.call[6]
            new == Appended(ex)
            n == Len(new)
            summation == new[n]
            own == PlanOps(plan)
            \* the value plan's output, for the plans that append an operator
            ownOut == IF own > 0 THEN OpOuts(new[own])[1]
                      ELSE Unwrap(EncodedGroupBy(ex))
        IN  /\ n >= 1
            /\ OpName(summation) = "summation"
            /\ OpOuts(summation) = <<ex.call[8]>>
            /\ OpIns(summation)[2] = key
            /\ \A i \in 1..(n - 1) : OpName(new[i]) # "summation"
            /\ IF ~IsSummationPreserving(type)
               THEN /\ n = own + 2
                    /\ OpName(new[n - 1]) = "DecodeWith"
                    /\ OpArg(new[n - 1]) = <<Unwrap(type.codec)>>
                    /\ OpIns(new[n - 1]) = <<ownOut>>
                    /\ OpIns(summation)[1] = OpOuts(new[n - 1])[1]
                    /\ OpArg(summation)[1] = NaturalEncoding(type.decoded)
               ELSE /\ n = own + 1
                    /\ OpIns(summation)[1] = ownOut
                    /\ OpArg(summation)[1] = EncodingTypeOf(type)

C7_Witness ==
    /\ AggSumReturned
    /\ ~IsSummationPreserving(ex.call[6])
    /\ ex.call[5] = ReadColumn(ExCodecN)
    /\ Len(Appended(ex)) = 3

\* The log of a run follows the executor's operators in stage order, then
\* in the order within the stage, on the scratchpad of that run.
LogInOrder ==
    LET all == Positions(ex)
        scratchpad == Unwrap(rn.scratchpad)
    IN  /\ Len(rn.log) <= Len(all)
        /\ \A k \in 1..Len(rn.log) : rn.log[k] = <<all[k][1], all[k][2], scratchpad.id>>

\* C8: while run is under way the operators executed so far are the first
\* operators of the executor in stage order and, inside a stage, in the order
\* appended, each once; when run has returned they are all of them; each was
\* handed the scratchpad created at the start of this run, which has as many
\* slots as the executor's buffer count.
C8_RunOrder ==
    rn.pc \in {"running", "done"} =>
        /\ Unwrap(rn.scratchpad).slots = ex.count
        /\ LogInOrder
        /\ rn.pc = "done" => Len(rn.log) = TotalOps(ex)
        /\ \A j, k \in 1..Len(rn.log) : j < k => rn.log[j][1] <= rn.log[k][1]

C8_Witness ==
    /\ rn.pc = "done"
    /\ Len(ex.stages) = 2
    /\ Len(ex.stages[1].ops) >= 2
    /\ Len(ex.stages[2].ops) >= 2
    /\ Len(rn.log) = TotalOps(ex)

\* Some operator has been executed by an earlier run and by this one: the
\* first prev operators are those of earlier runs.
ExecutedTwice == Len(rn.log) > 0 /\ rn.prev > 0

\* C9: run is invoked at most once on an executor, no building step follows
\* a run, and no operator is executed twice.
C9_Terminal ==
    /\ rn.runs <= 1
    /\ ~(rn.runs >= 1 /\ rn.pc = "idle")
    /\ ~ExecutedTwice

\* What holds of repeated runs: an operator executes at most once within a
\* run, and every run executes on a scratchpad of its own, created when it
\* starts.
OncePerRun ==
    rn.pc \in {"running", "done"} =>
        /\ \A j, k \in 1..Len(rn.log) :
              (rn.log[j][1] = rn.log[k][1] /\ rn.log[j][2] = rn.log[k][2]) => j = k
        /\ Unwrap(rn.scratchpad).id = rn.runs
        /\ \A k \in 1..Len(rn.log) : rn.log[k][3] = rn.runs

\* A second run has returned, after more was built on the executor the first
\* run had executed, and has executed the operators of the first run again.
SecondRunReturned ==
    /\ rn.pc = "done"
    /\ rn.runs = 2
    /\ rn.prev > 0
    /\ Len(rn.log) > rn.prev
    /\ Len(ex.stages) = 2

\* C10: on an executor whose calls have all returned, the outputs of the
\* operators other than Boolean AND/OR are pairwise different and are exactly
\* the handles 0 .. count - 1; every handle an operator reads or writes is
\* below count; a Boolean AND/OR writes its left operand's buffer, which an
\* operator before it has written.
C10_BufferHandles ==
    ex.pc = "building" =>
        LET ops == AllOps(ex)
            writes == {<<i, k>> \in (1..Len(ops)) \X (1..3) :
                          ~IsBoolean(ops[i]) /\ k <= Len(OpOuts(ops[i]))}
            handle(w) == OpOuts(ops[w[1]])[w[2]]
        IN  /\ \A v, w \in writes : handle(v) = handle(w) => v = w
            /\ {handle(w) : w \in writes} = 0..(ex.count - 1)
            /\ \A i \in 1..Len(ops) :
                  \A b \in Range(OpIns(ops[i])) \cup Range(OpOuts(ops[i])) : b \in 0..(ex.count - 1)
            /\ \A i \in 1..Len(ops) :
                  IsBoolean(ops[i]) =>
                      /\ OpOuts(ops[i]) = <<OpIns(ops[i])[1]>>
                      /\ \E j \in 1..(i - 1) : OpIns(ops[i])[1] \in Range(OpOuts(ops[j]))

C10_Witness ==
    /\ ex.pc = "building"
    /\ ex.call[1] = "prepare_hashmap_grouping"
    /\ Len(ex.stages) = 2
    /\ ex.count >= 9
    /\ \E i \in 1..Len(ex.stages[1].ops) : IsBoolean(ex.stages[1].ops[i])

(***************************************************************************)
(* The maximum key value compile_grouping_key returns.                     *)
(***************************************************************************)
\* compile_grouping_key was called with one expression, a column of the
\* table, and returned plans.
SingleKeyCompiled ==
    /\ gk.pc # "input"
    /\ Len(gk.exprs) = 1
    /\ IsColumnRef(gk.exprs[1])
    /\ GkResult[1] = "Ok"

\* The maximum returned is that of the column's known encoding range.
SingleKeyKnownMaximum ==
    (SingleKeyCompiled /\ IsSome(GkRangeOf(gk.exprs[1])))
        => GkResult[4] = Unwrap(GkRangeOf(gk.exprs[1]))[2]

\* C11: for a single grouping expression the maximum key value returned is
\* the upper bound of the column's encoding range when the range is known;
\* otherwise it is not negative and no value of the column, and no
\* non-negative i64 at all, is above it.
C11_SingleKeyMaximum ==
    SingleKeyCompiled =>
        IF IsSome(GkRangeOf(gk.exprs[1]))
        THEN GkResult[4] = Unwrap(GkRangeOf(gk.exprs[1]))[2]
        ELSE /\ ~IsNegative(GkResult[4])
             /\ \A v \in ColumnValues(gk.columns[gk.exprs[1][2]]) \cup {I64_MAX} :
                   SignedLessEq(v, GkResult[4])

\* compile_grouping_key was called with two columns and returned plans.
PackedKeyCompiled ==
    /\ gk.pc # "input"
    /\ TwoKnownColumns
    /\ GkResult[1] = "Ok"

\* The maximum key returned is not negative, is the packed key of the row of
\* the column maxima, and no row's packed key is above it.
LargestKeyBounds ==
    /\ ~IsNegative(GkResult[4])
    /\ gk.pc = "evaluated" =>
          /\ SignedLessEq(Unwrap(gk.key), GkResult[4])
          /\ (\A i \in 1..2 : Unwrap(gk.row)[gk.exprs[i][2]] = GkMax(i))
                => Unwrap(gk.key) = GkResult[4]

\* C16: whenever compile_grouping_key succeeds for two columns, the maximum
\* key value it returns is not negative, equals the packed key of the two
\* column maxima and is at least the packed key of every row of in-range
\* values, a combined bit width of exactly 64 included.
C16_LargestKey ==
    PackedKeyCompiled => LargestKeyBounds

\* The same for positive maxima of a combined bit width below 64.
C16_Below64 ==
    (PackedKeyCompiled /\ (\A i \in 1..2 : GkMax(i) # {}) /\ CombinedWidth < 64)
        => LargestKeyBounds

(***************************************************************************)
(* columns/strings.rs: build_string_column.                                *)
(* UniqueValues (columns/mod.rs) collects the distinct values of a column   *)
(* up to a ceiling: get_values() is the set while the number of distinct    *)
(* values is within the ceiling, and None once it has been exceeded.        *)
(***************************************************************************)
\* pub const MAX_UNIQUE_STRINGS
MAX_UNIQUE_STRINGS == 10000

\* A ceiling small enough for the inputs of the model to exceed.
MaxUnique == 1

UniqueCeilings == {MaxUnique, MAX_UNIQUE_STRINGS}

\* UniqueValues::get_values for the values of a column and a ceiling.
GetValues(values, max_count) ==
    IF Cardinality(Range(values)) <= max_count THEN Some(Range(values)) ELSE None

BsInit ==
    \E values \in PackerInputs, max_count \in UniqueCeilings :
        sp = [pc |-> "build", strings |-> values, unique_values |-> GetValues(values, max_count),
              column |-> "none", data |-> <<>>, curr_index |-> 0, items |-> <<>>]

\* build_string_column: panic!("TODO") when the unique values are there, a
\* StringPacker of the values otherwise.
BsBuildStringColumn ==
    /\ sp.pc = "build"
    /\ IF IsSome(sp.unique_values)
       THEN sp' = [sp EXCEPT !.pc = "abort"]
       ELSE sp' = [sp EXCEPT !.pc = "packed", !.column = "StringPacker",
                             !.data = PackerFromStrings(sp.strings).data]
    /\ UNCHANGED <<de, cq, gk, ex, rn>>

BsNextAction == BsBuildStringColumn \/ SpIter \/ SpNext

InitBuild == BsInit /\ de = Idle /\ cq = Idle /\ gk = Idle /\ ex = Idle /\ rn = Idle

SpecBuild == InitBuild /\ [][BsNextAction]_vars

\* Iterating the column built yields one value per input row, in input order.
YieldsEveryRow ==
    /\ sp.pc # "panic"
    /\ sp.pc \in {"iter", "done"} => sp.items = SubSeq(Expected(sp.strings), 1, Len(sp.items))
    /\ sp.pc = "done" => Len(sp.items) = Len(sp.strings)

\* C12: build_string_column returns a column for every input and does not
\* abort: a dictionary-encoded column when the distinct values are available,
\* a byte-packed column otherwise, and iterating the column yields one value
\* per input row in input order.
C12_BuildStringColumn ==
    (sp.pc # "build" /\ NoZeroByte(sp.strings)) =>
        /\ sp.pc # "abort"
        /\ sp.column = (IF IsSome(sp.unique_values) THEN "DictEncodedStrings" ELSE "StringPacker")
        /\ YieldsEveryRow

\* The same for the inputs whose distinct values are not available.
C12_PackedBranch ==
    (sp.pc # "build" /\ NoZeroByte(sp.strings) /\ ~IsSome(sp.unique_values)) =>
        /\ sp.pc # "abort"
        /\ sp.column = "StringPacker"
        /\ YieldsEveryRow

(***************************************************************************)
(* Lowering of And/Or, of the data access nodes and of the group key       *)
(* placeholder.                                                            *)
(***************************************************************************)
\* The buffers the lowering of a plan allocates: one for every node that
\* lowers to an operator of its own other than And/Or.
RECURSIVE PlanBuffers(_)
PlanBuffers(plan) ==
    CASE plan[1] \in {"DecodeColumn", "ReadColumn", "Constant"} -> 1
      [] plan[1] \in UnaryNodes -> PlanBuffers(plan[2]) + 1
      [] plan[1] = "BitPack" -> PlanBuffers(plan[2]) + PlanBuffers(plan[3]) + 1
      [] plan[1] \in {"LessThanVS", "EqualsVS"} -> PlanBuffers(plan[3]) + PlanBuffers(plan[4]) + 1
      [] plan[1] \in {"Or", "And"} -> PlanBuffers(plan[2]) + PlanBuffers(plan[3])
      [] OTHER -> 0

\* prepare has returned from lowering a plan.
PrepareReturned == ex.pc = "building" /\ ex.call[1] = "prepare"

\* The result buffer of an operand whose operators are ops[from .. to]: what
\* its last operator writes, or the buffer the operand names when it lowers to
\* no operator.
OperandResult(operand, ops, from, to) ==
    IF to >= from THEN OpOuts(ops[to])[1]
    ELSE IF operand[1] = "ReadBuffer" THEN operand[2]
    ELSE Unwrap(EncodedGroupBy(ex))

\* C13: lowering an And or Or appends the operators of the left operand, then
\* those of the right operand, then one Boolean operator of that kind whose
\* first input is the left operand's result buffer and whose second is the
\* right operand's; the Boolean operator writes, and prepare returns, the left
\* operand's buffer, and the buffer count grows by what the operands allocate.
C13_BooleanInPlace ==
    (PrepareReturned /\ ex.call[4][1] \in {"And", "Or"}) =>
        LET plan == ex.call[4]
            returned == ex.call[5]
            new == Appended(ex)
            n == Len(new)
            l == PlanOps(plan[2])
            r == PlanOps(plan[3])
            lhs == OperandResult(plan[2], new, 1, l)
            rhs == OperandResult(plan[3], new, l + 1, l + r)
        IN  /\ n = l + r + 1
            /\ OpName(new[n]) = (IF plan[1] = "Or" THEN "BooleanOr" ELSE "BooleanAnd")
            /\ OpIns(new[n]) = <<lhs, rhs>>
            /\ OpOuts(new[n]) = <<lhs>>
            /\ returned = lhs
            /\ Cardinality({i \in 1..n : IsBoolean(new[i])})
                  = PlanOps(plan) - PlanBuffers(plan)
            /\ ex.count = ex.call[6] + PlanBuffers(plan[2]) + PlanBuffers(plan[3])

C13_Witness ==
    /\ PrepareReturned
    /\ ex.call[4] = Or(And(ExLess, ExEquals), ExLess)
    /\ ex.call[5] = ex.call[6] + 2
    /\ ex.count = ex.call[6] + 10

\* The data access operators, and the one that goes with a filter.
IsAccess(op) ==
    OpName(op) \in {"GetDecode", "FilterDecode", "IndexDecode",
                    "GetEncoded", "FilterEncoded", "IndexEncoded"}

AccessMatches(op, filter) ==
    CASE filter[1] = "None" -> OpName(op) \in {"GetDecode", "GetEncoded"} /\ OpIns(op) = <<>>
      [] filter[1] = "BitVec" ->
            OpName(op) \in {"FilterDecode", "FilterEncoded"} /\ OpIns(op) = <<filter[2]>>
      [] filter[1] = "Indices" ->
            OpName(op) \in {"IndexDecode", "IndexEncoded"} /\ OpIns(op) = <<filter[2]>>

LoweringCalls ==
    {"prepare", "prepare_unique", "prepare_hashmap_grouping", "prepare_aggregation"}

StageOps(e) == [i \in 1..Len(e.stages) |-> e.stages[i].ops]

\* C14: every data access operator a stage holds is the variant that goes
\* with the stage's active filter.
C14_StageFilter ==
    ex.pc = "building" =>
        \A i \in 1..Len(ex.stages) : \A k \in 1..Len(ex.stages[i].ops) :
            IsAccess(ex.stages[i].ops[k]) => AccessMatches(ex.stages[i].ops[k], ex.stages[i].filter)

\* C14 amended: the data access operators a lowering call appends are the
\* variant that goes with the filter the current stage has during the call,
\* reading that filter's buffer; set_filter replaces the filter of the current
\* stage and leaves the operators of all stages as they are.
C14_FilterWhenLowered ==
    [][/\ (ex'.pc = "building" /\ ex'.call[1] \in LoweringCalls /\ ex' # ex) =>
              /\ CurrentFilter(ex') = CurrentFilter(ex)
              /\ \A k \in 1..Len(Appended(ex')) :
                    IsAccess(Appended(ex')[k]) => AccessMatches(Appended(ex')[k], CurrentFilter(ex))
       /\ ex'.call[1] = "set_filter" => StageOps(ex') = StageOps(ex)
      ]_vars

\* prepare has returned in a stage that holds an unfiltered data access
\* operator from before its filter was set and a filtered one from after.
C14_Witness ==
    /\ PrepareReturned
    /\ CurrentFilter(ex)[1] = "BitVec"
    /\ \E j, k \in 1..Len(LastStage(ex).ops) :
          /\ j < k
          /\ OpName(LastStage(ex).ops[j]) = "GetDecode"
          /\ OpName(LastStage(ex).ops[k]) = "FilterEncoded"
          /\ OpIns(LastStage(ex).ops[k]) = <<CurrentFilter(ex)[2]>>

\* Whether a lowered plan reads the group key placeholder.
ReadsPlaceholder(plan) ==
    \/ plan = EncodedGroupByPlaceholder
    \/ plan[1] = "DecodeWith" /\ plan[2] = EncodedGroupByPlaceholder
    \/ plan[1] = "TypeConversion" /\ plan[2][1] = "BitUnpack"
                                  /\ plan[2][2] = EncodedGroupByPlaceholder

EarlierStagesKept(e, f) ==
    /\ Len(f.stages) >= Len(e.stages)
    /\ \A i \in 1..(Len(f.stages) - 1) : f.stages[i] = e.stages[i]
    /\ f.count = e.count

\* What holds of a state: the stage new_stage leaves last is empty, with no
\* filter and no group key; a lowering of the placeholder that returned handed
\* out the group key of the last stage, appended nothing and allocated
\* nothing; one that panicked found no group key on the last stage.
PlaceholderState ==
    /\ ex.call[1] = "new_stage" => LastStage(ex) = StageDefault
    /\ (ex.call[1] = "prepare" /\ ex.call[4] = EncodedGroupByPlaceholder) =>
          IF ex.pc = "panic"
          THEN LastStage(ex).encoded_group_by = None
          ELSE /\ LastStage(ex).encoded_group_by = Some(ex.call[5])
               /\ Appended(ex) = <<>>
               /\ ex.count = ex.call[6]

\* What holds of a step: lowering a plan that reads the placeholder panics
\* exactly when the last stage has no group key, whatever earlier stages
\* hold, and the placeholder alone changes neither stages nor buffer count;
\* new_stage appends a stage, set_filter and set_encoded_group_by write one
\* field of the last stage, and all three keep the earlier stages.
PlaceholderStep ==
    /\ (ex'.call[1] = "prepare" /\ ex' # ex /\ ReadsPlaceholder(ex'.call[4])) =>
          /\ ex'.pc = "panic" <=> LastStage(ex).encoded_group_by = None
          /\ ex'.call[4] = EncodedGroupByPlaceholder =>
                ex'.stages = ex.stages /\ ex'.count = ex.count
    /\ ex'.call[1] = "new_stage" /\ ex' # ex =>
          /\ Len(ex'.stages) = Len(ex.stages) + 1
          /\ EarlierStagesKept(ex, ex')
    /\ ex'.call[1] = "set_filter" =>
          /\ Len(ex'.stages) = Len(ex.stages)
          /\ EarlierStagesKept(ex, ex')
          /\ LastStage(ex').ops = LastStage(ex).ops
          /\ LastStage(ex').encoded_group_by = LastStage(ex).encoded_group_by
    /\ ex'.call[1] = "set_encoded_group_by" =>
          /\ Len(ex'.stages) = Len(ex.stages)
          /\ EarlierStagesKept(ex, ex')
          /\ LastStage(ex').ops = LastStage(ex).ops
          /\ LastStage(ex').filter = LastStage(ex).filter
          /\ IsSome(LastStage(ex').encoded_group_by)

\* C15: the placeholder lowers to the group key registered on the last stage,
\* with no operator appended and no buffer allocated; a new stage starts with
\* no filter and no group key, so the key of an earlier stage is never handed
\* out and lowering the placeholder before a registration on the last stage
\* panics; new_stage, set_filter and set_encoded_group_by leave the earlier
\* stages as they are.
C15_Placeholder == []PlaceholderState /\ [][PlaceholderStep]_vars

\* The placeholder was lowered in a second stage whose group key differs
\* from the one registered on the first stage, and the second stage's key
\* came back.
C15_Witness ==
    /\ ex.pc = "building"
    /\ ex.call[1] = "prepare"
    /\ ex.call[4] = EncodedGroupByPlaceholder
    /\ Len(ex.stages) = 2
    /\ IsSome(ex.stages[1].encoded_group_by)
    /\ ex.stages[1].encoded_group_by # ex.stages[2].encoded_group_by
    /\ ex.call[5] = Unwrap(ex.stages[2].encoded_group_by)

\* The placeholder was lowered in a second stage with no group key while
\* the first stage had one: the call panicked.
PlaceholderPanicked ==
    /\ ex.pc = "panic"
    /\ ex.call[1] = "prepare"
    /\ ex.call[4] = EncodedGroupByPlaceholder
    /\ Len(ex.stages) = 2
    /\ IsSome(ex.stages[1].encoded_group_by)

====
